---- MODULE Spec2Model ----
(***************************************************************************)
(* Model of the octree streaming loader of three-loader:                   *)
(*   src/src/loading/octree-loader.ts  (NodeLoader, OctreeLoader,          *)
(*   OctreeGeometry, OctreeGeometryNode).                                  *)
(*                                                                         *)
(* The JavaScript event loop is modelled by one action per callback or     *)
(* promise continuation: a call of NodeLoader.load runs up to its first    *)
(* await, every fetch / arrayBuffer promise resolves or rejects in a step  *)
(* of its own, and every worker answers (or fails) in a step of its own.   *)
(* Nodes are identified by their name: the root "r" is the empty sequence  *)
(* and a child's name is its parent's name followed by the child index.    *)
(***************************************************************************)
EXTENDS Integers, Sequences, FiniteSets, TLC

(***************************************************************************)
(* Bounds of the model.                                                    *)
(***************************************************************************)
\* NodeLoader.load is called at most this many times (the call made by
\* OctreeLoader.load included).
MaxLoadCalls == 2
\* One-time dispose handlers registered over a run.
MaxHandlers == 1

(***************************************************************************)
(* Program constants.                                                      *)
(***************************************************************************)
bytesPerNode == 22
ProxyType == 2
NumChildSlots == 8

\* null / undefined
NoNode == <<-1>>
NoGeometry == 0

RootName == <<>>

ChildIndices == 0 .. (NumChildSlots - 1)

(***************************************************************************)
(* OctreeGeometryNode: the fields a freshly constructed node has.          *)
(***************************************************************************)
NewNode(parent, level) ==
  [ loaded |-> FALSE,
    loading |-> FALSE,
    failed |-> FALSE,
    children |-> [i \in ChildIndices |-> NoNode],
    numPoints |-> 0,
    geometry |-> NoGeometry,
    density |-> 0,
    level |-> level,
    parent |-> parent,
    oneTimeDisposeHandlers |-> <<>>,
    hierarchyByteOffset |-> 0,
    hierarchyByteSize |-> 0,
    byteSize |-> 0,
    byteOffset |-> 0,
    nodeType |-> 0 ]

(***************************************************************************)
(* Hierarchy chunks the range fetch of hierarchy.bin may deliver.  A chunk *)
(* is its sequence of whole 22-byte records plus the number of bytes that  *)
(* follow the last whole record.                                           *)
(***************************************************************************)
Rec(type, childMask, numPoints, byteOffset, byteSize) ==
  [ type |-> type, childMask |-> childMask, numPoints |-> numPoints,
    byteOffset |-> byteOffset, byteSize |-> byteSize ]

\* one leaf record
ChunkLeaf == [ records |-> << Rec(0, 0, 1, 0, 4) >>, rest |-> 0 ]
\* an inner node with children 0 (an empty leaf) and 1 (a proxy whose
\* record carries a child mask)
ChunkTree ==
  [ records |-> << Rec(1, 3, 2, 0, 4), Rec(0, 0, 0, 4, 0), Rec(2, 5, 1, 22, 22) >>,
    rest |-> 0 ]
\* a proxy record at position 0
ChunkProxy == [ records |-> << Rec(2, 3, 1, 22, 22) >>, rest |-> 0 ]
\* more records than nodes discovered
ChunkLong == [ records |-> << Rec(0, 0, 1, 0, 4), Rec(0, 0, 1, 4, 4) >>, rest |-> 0 ]
\* a length that is no multiple of the record size
ChunkRagged == [ records |-> << Rec(0, 0, 1, 0, 4) >>, rest |-> 1 ]

HierarchyChunks == { ChunkLeaf, ChunkTree, ChunkProxy, ChunkLong, ChunkRagged }

ByteLength(buffer) == Len(buffer.records) * bytesPerNode + buffer.rest

\* The bodies a range request for bytes first..last may be answered with:
\* the range, or less of it when the file ends early.
RangeBodies(first, last) ==
  { b \in HierarchyChunks : ByteLength(b) <= last - first + 1 }

(***************************************************************************)
(* NodeLoader.parseHierarchy                                               *)
(***************************************************************************)
RECURSIVE Pow2(_)
Pow2(k) == IF k = 0 THEN 1 ELSE 2 * Pow2(k - 1)

\* the mask tested one bit too high
childExistsNextBit(childMask, childIndex) ==
  (childMask \div Pow2(childIndex + 1)) % 2 = 1

\* ((1 << childIndex) & childMask) !== 0
childExists(childMask, childIndex) == (childMask \div Pow2(childIndex)) % 2 = 1

\* The inner loop over childIndex for one record: creates the children of
\* `current` and appends them to the work list.
RECURSIVE CreateChildren(_, _, _, _, _)
CreateChildren(ns, list, current, childMask, childIndex) ==
  IF childIndex >= NumChildSlots THEN [ nodes |-> ns, list |-> list ]
  ELSE IF ~childExists(childMask, childIndex)
    THEN CreateChildren(ns, list, current, childMask, childIndex + 1)
    ELSE LET childName == Append(current, childIndex)
             child == NewNode(current, ns[current].level + 1)
             linked == [ ns[current] EXCEPT !.children[childIndex] = childName ]
             ns2 == [ n \in DOMAIN ns \cup {childName} |->
                        IF n = childName THEN child
                        ELSE IF n = current THEN linked
                        ELSE ns[n] ]
         IN CreateChildren(ns2, Append(list, childName), current, childMask,
                           childIndex + 1)

\* the record's type tested before the node's
ApplyRecordTypeFirst(node, rec) ==
  LET written ==
        IF rec.type = ProxyType
          THEN [ node EXCEPT !.hierarchyByteOffset = rec.byteOffset,
                             !.hierarchyByteSize = rec.byteSize,
                             !.numPoints = rec.numPoints ]
        ELSE [ node EXCEPT !.byteOffset = rec.byteOffset,
                           !.byteSize = rec.byteSize,
                           !.numPoints = rec.numPoints ]
  IN [ written EXCEPT !.nodeType = rec.type ]

\* The fields one record writes to the node at its position.
ApplyRecord(node, rec) ==
  LET written ==
        IF node.nodeType = ProxyType
          THEN [ node EXCEPT !.byteOffset = rec.byteOffset,
                             !.byteSize = rec.byteSize,
                             !.numPoints = rec.numPoints ]
        ELSE IF rec.type = ProxyType
          THEN [ node EXCEPT !.hierarchyByteOffset = rec.byteOffset,
                             !.hierarchyByteSize = rec.byteSize,
                             !.numPoints = rec.numPoints ]
        ELSE [ node EXCEPT !.byteOffset = rec.byteOffset,
                           !.byteSize = rec.byteSize,
                           !.numPoints = rec.numPoints ]
  IN [ written EXCEPT !.nodeType = rec.type ]

\* The loop over the records, from record i (1-based) on.  `thrown` tells
\* that nodes[i] was undefined: the TypeError leaves the loop with the
\* writes made so far in place.
RECURSIVE ParseLoop(_, _, _, _)
ParseLoop(ns, list, records, i) ==
  IF i > Len(records)
    THEN [ nodes |-> ns, list |-> list, thrown |-> FALSE, error |-> "none" ]
  ELSE IF i > Len(list)
    THEN [ nodes |-> ns, list |-> list, thrown |-> TRUE, error |-> "TypeError" ]
  ELSE LET current == list[i]
           ns1 == [ ns EXCEPT ![current] = ApplyRecord(ns[current], records[i]) ]
       IN IF ns1[current].nodeType = ProxyType
            THEN ParseLoop(ns1, list, records, i + 1)
            ELSE LET made == CreateChildren(ns1, list, current,
                                            records[i].childMask, 0)
                 IN ParseLoop(made.nodes, made.list, records, i + 1)

\* parseHierarchy with numNodes rounded down to whole records
parseHierarchyWholeRecords(ns, node, buffer) ==
  ParseLoop(ns, << node >>, buffer.records, 1)

\* new Array(numNodes) throws a RangeError unless numNodes is an integer.
parseHierarchy(ns, node, buffer) ==
  IF ByteLength(buffer) % bytesPerNode # 0
    THEN [ nodes |-> ns, list |-> << node >>, thrown |-> TRUE,
           error |-> "RangeError" ]
    ELSE ParseLoop(ns, << node >>, buffer.records, 1)

(***************************************************************************)
(* OctreeGeometryNode.traverse and OctreeGeometryNode.dispose              *)
(***************************************************************************)
\* JavaScript truthiness of the includeSelf argument, which is true, false
\* or left out.
IncludeSelfValues == { "true", "false", "undefined" }
Truthy(v) == v = "true"

\* The non-null children of a node, in slot order.
RECURSIVE ChildrenFrom(_, _)
ChildrenFrom(node, i) ==
  IF i >= NumChildSlots THEN << >>
  ELSE IF node.children[i] = NoNode THEN ChildrenFrom(node, i + 1)
  ELSE << node.children[i] >> \o ChildrenFrom(node, i + 1)

\* The while loop of traverse: pops the last entry of the stack, calls cb
\* on it and pushes its children.  The result is the sequence of nodes cb
\* was called on, in call order.
RECURSIVE TraverseLoop(_, _, _)
TraverseLoop(ns, stack, visited) ==
  IF stack = << >> THEN visited
  ELSE LET current == stack[Len(stack)]
           popped == SubSeq(stack, 1, Len(stack) - 1)
       IN TraverseLoop(ns, popped \o ChildrenFrom(ns[current], 0),
                       Append(visited, current))

traverse(ns, node, includeSelf) ==
  TraverseLoop(ns, IF Truthy(includeSelf) THEN << node >> ELSE << >>, << >>)

\* handlers.forEach(handler => handler()): every handler of the list is
\* invoked once; runs counts the invocations of each handler.
RECURSIVE RunHandlers(_, _, _)
RunHandlers(runs, handlers, i) ==
  IF i > Len(handlers) THEN runs
  ELSE RunHandlers([ runs EXCEPT ![handlers[i]] = @ + 1 ], handlers, i + 1)

\* an early return that forgets the parent check
DisposeSkippedNoParentCheck(node) == node.geometry = NoGeometry

\* The early return of OctreeGeometryNode.dispose.
DisposeSkipped(node) == node.geometry = NoGeometry \/ node.parent = NoNode

\* OctreeGeometryNode.dispose on node n, as a function of the nodes and of
\* the handlers' invocation counts.
NodeDisposeOp(ns, runs, n) ==
  IF DisposeSkipped(ns[n])
    THEN [ nodes |-> ns, handlerRuns |-> runs ]
    ELSE [ nodes |-> [ ns EXCEPT ![n].geometry = NoGeometry,
                                 ![n].loaded = FALSE,
                                 ![n].oneTimeDisposeHandlers = << >> ],
           handlerRuns |-> RunHandlers(runs, ns[n].oneTimeDisposeHandlers, 1) ]

\* cb = node => node.dispose() applied to the nodes traverse visits.
RECURSIVE DisposeAll(_, _, _, _)
DisposeAll(ns, runs, visited, i) ==
  IF i > Len(visited) THEN [ nodes |-> ns, handlerRuns |-> runs ]
  ELSE LET r == NodeDisposeOp(ns, runs, visited[i])
       IN DisposeAll(r.nodes, r.handlerRuns, visited, i + 1)

(***************************************************************************)
(* Numbers of the decoder.  A JavaScript number is an exact fraction       *)
(* [n, d] with d > 0 in lowest terms, or one of "NaN", "Infinity",         *)
(* "-Infinity", which only a division by zero produces.                    *)
(***************************************************************************)
Abs(i) == IF i < 0 THEN -i ELSE i
Sign(i) == IF i > 0 THEN 1 ELSE IF i < 0 THEN -1 ELSE 0

RECURSIVE Gcd(_, _)
Gcd(a, b) == IF b = 0 THEN a ELSE Gcd(b, a % b)

\* n / d in lowest terms, for d # 0
Rat(n, d) ==
  LET g == Gcd(Abs(n), Abs(d))
  IN [ n |-> Sign(d) * (n \div g), d |-> Abs(d) \div g ]

Num(i) == [ n |-> i, d |-> 1 ]

NaN == [ n |-> 0, d |-> 0 ]
Infinity == [ n |-> 1, d |-> 0 ]

IsFinite(a) == a.d # 0
Neg(a) == [ n |-> -a.n, d |-> a.d ]

NAdd(a, b) ==
  IF IsFinite(a) /\ IsFinite(b) THEN Rat(a.n * b.d + b.n * a.d, a.d * b.d)
  ELSE IF a = NaN \/ b = NaN THEN NaN
  ELSE IF ~IsFinite(a) /\ ~IsFinite(b) THEN (IF a = b THEN a ELSE NaN)
  ELSE IF IsFinite(b) THEN a ELSE b

NSub(a, b) == NAdd(a, Neg(b))

NMul(a, b) ==
  IF IsFinite(a) /\ IsFinite(b) THEN Rat(a.n * b.n, a.d * b.d)
  ELSE IF Sign(a.n) * Sign(b.n) = 0 THEN NaN
  ELSE [ n |-> Sign(a.n) * Sign(b.n), d |-> 0 ]

\* the sign of a zero is not kept: a division by 0 takes it as +0
NDiv(a, b) ==
  IF a = NaN \/ b = NaN THEN NaN
  ELSE IF IsFinite(a) /\ IsFinite(b)
    THEN IF b.n # 0 THEN Rat(a.n * b.d, a.d * b.n)
         ELSE IF a.n = 0 THEN NaN
         ELSE [ n |-> Sign(a.n), d |-> 0 ]
  ELSE IF IsFinite(a) THEN Num(0)
  ELSE IF IsFinite(b) THEN [ n |-> Sign(a.n) * (IF b.n < 0 THEN -1 ELSE 1), d |-> 0 ]
  ELSE NaN

\* a < b; false when either is NaN
NLess(a, b) ==
  IF IsFinite(a) /\ IsFinite(b) THEN a.n * b.d < b.n * a.d
  ELSE IF a = NaN \/ b = NaN THEN FALSE
  ELSE (a = Neg(Infinity) /\ b # a) \/ (b = Infinity /\ a # b)

\* Math.min
NMin(a, b) ==
  IF a = NaN \/ b = NaN THEN NaN ELSE IF NLess(b, a) THEN b ELSE a

IsInteger(a) == a.d = 1
\* for finite a
Floor(a) == a.n \div a.d
\* the integer part of a finite a, rounded towards zero
Trunc(a) == IF a.n >= 0 THEN a.n \div a.d ELSE -((-a.n) \div a.d)

\* the e with 2^e <= a < 2^(e+1): searched upwards from e >= 0 for a >= 1,
\* downwards from e < 0 for 0 < a < 1
RECURSIVE ExponentFrom(_, _)
ExponentFrom(a, e) ==
  IF e >= 0
    THEN IF NLess(a, Num(Pow2(e + 1))) THEN e ELSE ExponentFrom(a, e + 1)
    ELSE IF NLess(a, Rat(1, Pow2(-e))) THEN ExponentFrom(a, e - 1) ELSE e

Exponent(a) == IF NLess(a, Num(1)) THEN ExponentFrom(a, -1) ELSE ExponentFrom(a, 0)

\* f or f + 1, whichever is nearer to f + twice / 2, a tie going to the even
\* one
NearerOf(f, twice) ==
  IF NLess(twice, Num(1)) THEN f
  ELSE IF NLess(Num(1), twice) THEN f + 1
  ELSE IF f % 2 = 0 THEN f ELSE f + 1

\* the integer nearest to a >= 0, a tie going to the even one
RoundHalfEven(a) ==
  NearerOf(Floor(a), NSub(NMul(Num(2), a), Num(2 * Floor(a))))

(***************************************************************************)
(* Typed arrays and DataView.  A buffer is its sequence of bytes; offsets  *)
(* are 0-based as in the code; all reads are little-endian.                *)
(***************************************************************************)
\* a store into a Uint8ClampedArray: rounded to nearest, kept in 0..255
ToUint8Clamp(a) ==
  LET r == Floor(NAdd(a, Rat(1, 2)))
  IN IF r < 0 THEN 0 ELSE IF r > 255 THEN 255 ELSE r

\* a store into a Uint8Array: truncated, then taken modulo 256
ToUint8(a) == IF IsFinite(a) THEN Trunc(a) % 256 ELSE 0

\* a store into a Float32Array: the nearest number with a 24-bit
\* significand
\* the spacing of the float32 numbers from 2^e up to 2^(e+1)
Ulp(e) == IF e >= 23 THEN Num(Pow2(e - 23)) ELSE Rat(1, Pow2(23 - e))

\* the multiple of unit nearest to m > 0
RoundTo(m, unit) == NMul(Num(RoundHalfEven(NDiv(m, unit))), unit)

ToFloat32(a) ==
  IF ~IsFinite(a) \/ a.n = 0 THEN a
  ELSE IF a.n < 0 THEN Neg(RoundTo(Neg(a), Ulp(Exponent(Neg(a)))))
  ELSE RoundTo(a, Ulp(Exponent(a)))

\* the integer of `size` bytes at position pos
RECURSIVE getUint(_, _, _)
getUint(buffer, pos, size) ==
  IF size = 0 THEN 0
  ELSE buffer[pos + 1] + 256 * getUint(buffer, pos + 1, size - 1)

\* the same bytes read as two's complement
RECURSIVE getInt(_, _, _)
getInt(buffer, pos, size) ==
  IF size = 1
    THEN IF buffer[pos + 1] >= 128 THEN buffer[pos + 1] - 256 ELSE buffer[pos + 1]
    ELSE buffer[pos + 1] + 256 * getInt(buffer, pos + 1, size - 1)

\* IEEE 754 binary32
getFloat32(buffer, pos) ==
  LET b(k) == buffer[pos + 1 + k]
      sign == IF b(3) >= 128 THEN -1 ELSE 1
      e == (b(3) % 128) * 2 + b(2) \div 128
      m == (b(2) % 128) * 65536 + b(1) * 256 + b(0)
  IN IF e = 255 THEN (IF m # 0 THEN NaN
                      ELSE IF sign = 1 THEN Infinity ELSE Neg(Infinity))
     ELSE IF e = 0 THEN Rat(sign * m, Pow2(149))
     ELSE IF e >= 150 THEN Num(sign * (Pow2(23) + m) * Pow2(e - 150))
     ELSE Rat(sign * (Pow2(23) + m), Pow2(150 - e))

\* IEEE 754 binary64
getFloat64(buffer, pos) ==
  LET b(k) == buffer[pos + 1 + k]
      sign == IF b(7) >= 128 THEN -1 ELSE 1
      e == (b(7) % 128) * 16 + b(6) \div 16
      mhi == (b(6) % 16) * 65536 + b(5) * 256 + b(4)
      mlo == getUint(buffer, pos, 4)
      high == IF e >= 1043 THEN Num(sign * (Pow2(20) + mhi) * Pow2(e - 1043))
              ELSE Rat(sign * (Pow2(20) + mhi), Pow2(1043 - e))
  IN IF e = 2047 THEN (IF mhi # 0 \/ mlo # 0 THEN NaN
                       ELSE IF sign = 1 THEN Infinity ELSE Neg(Infinity))
     ELSE IF e = 0 THEN Rat(sign * mhi, Pow2(1042))
     ELSE IF mlo = 0 THEN high
     ELSE NAdd(high, NMul(Num(sign * mlo), Rat(1, Pow2(1075 - e))))

(***************************************************************************)
(* decoder-worker-internal.ts                                              *)
(***************************************************************************)
\* PointAttributeTypes: the size in bytes of each type name
TypeSizes ==
  [ double |-> 8, float |-> 4, int8 |-> 1, uint8 |-> 1, int16 |-> 2,
    uint16 |-> 2, int32 |-> 4, uint32 |-> 4, int64 |-> 8, uint64 |-> 8 ]

\* the entries for int64 and uint64 are commented out in the code
getterMap ==
  [ int8 |-> "getInt8", int16 |-> "getInt16", int32 |-> "getInt32",
    uint8 |-> "getUint8", uint16 |-> "getUint16", uint32 |-> "getUint32",
    float |-> "getFloat32", double |-> "getFloat64" ]

\* a call of one of the DataView methods getterMap holds
Getter(method, buffer, pos) ==
  CASE method = "getInt8" -> Num(getInt(buffer, pos, 1))
    [] method = "getInt16" -> Num(getInt(buffer, pos, 2))
    [] method = "getInt32" -> Num(getInt(buffer, pos, 4))
    [] method = "getUint8" -> Num(getUint(buffer, pos, 1))
    [] method = "getUint16" -> Num(getUint(buffer, pos, 2))
    [] method = "getUint32" -> Num(getUint(buffer, pos, 4))
    [] method = "getFloat32" -> getFloat32(buffer, pos)
    [] method = "getFloat64" -> getFloat64(buffer, pos)

\* the bytes a DataView method reads
GetterSizes ==
  [ getInt8 |-> 1, getInt16 |-> 2, getInt32 |-> 4, getUint8 |-> 1,
    getUint16 |-> 2, getUint32 |-> 4, getFloat32 |-> 4, getFloat64 |-> 8 ]

\* A DataView read of `size` bytes at pos throws a RangeError unless the
\* bytes are inside the buffer.
InBounds(buffer, pos, size) == pos >= 0 /\ pos + size <= Len(buffer)

gridSize == 32

\* toIndex; size is the node's extent per axis
toIndex(x, y, z, size) ==
  LET dx == NDiv(NMul(Num(gridSize), x), size[1])
      dy == NDiv(NMul(Num(gridSize), y), size[2])
      dz == NDiv(NMul(Num(gridSize), z), size[3])
      ix == NMin(dx, Num(gridSize - 1))
      iy == NMin(dy, Num(gridSize - 1))
      iz == NMin(dz, Num(gridSize - 1))
  IN NAdd(ix, NAdd(NMul(iy, Num(gridSize)), NMul(iz, Num(gridSize * gridSize))))

\* A number is an index of the grid, a Uint32Array of gridSize ** 3
\* elements, when it is an integer inside it; a read at any other number
\* gives undefined and a write there is ignored.
IsGridIndex(index) ==
  IsInteger(index) /\ index.n >= 0 /\ index.n < gridSize * gridSize * gridSize

\* the grid holds a count for the cells written so far; the others are 0
GridCount(grid, cell) == IF cell \in DOMAIN grid THEN grid[cell] ELSE 0

\* x, y or z (axis 0, 1, 2) of point j as the position branch computes it
Coordinate(data, attributeOffset, bytesPerPoint, j, axis) ==
  NSub(NAdd(NMul(Num(getInt(data.buffer,
                            j * bytesPerPoint + attributeOffset + 4 * axis, 4)),
                 data.scale[axis + 1]),
            data.offset[axis + 1]),
       data.min[axis + 1])

\* The statements grid[index]++ and numOccupiedCells++ for one point.
CountCell(grid, numOccupiedCells, index) ==
  IF ~IsGridIndex(index)
    THEN [ grid |-> grid, numOccupiedCells |-> numOccupiedCells ]
  ELSE [ grid |-> [ c \in DOMAIN grid \cup { index.n } |->
                      IF c = index.n THEN GridCount(grid, c) + 1 ELSE grid[c] ],
         numOccupiedCells |-> IF GridCount(grid, index.n) = 0
                                THEN numOccupiedCells + 1
                                ELSE numOccupiedCells ]

\* The same statements for the points from j on.
RECURSIVE CountCells(_, _, _, _, _, _)
RECURSIVE CountFrom(_, _, _, _, _)
CountCells(data, attributeOffset, bytesPerPoint, grid, numOccupiedCells, j) ==
  IF j >= data.numPoints
    THEN [ grid |-> grid, numOccupiedCells |-> numOccupiedCells ]
  ELSE CountFrom(data, attributeOffset, bytesPerPoint,
         CountCell(grid, numOccupiedCells,
           toIndex(Coordinate(data, attributeOffset, bytesPerPoint, j, 0),
                   Coordinate(data, attributeOffset, bytesPerPoint, j, 1),
                   Coordinate(data, attributeOffset, bytesPerPoint, j, 2),
                   data.size)),
         j + 1)

CountFrom(data, attributeOffset, bytesPerPoint, counted, j) ==
  CountCells(data, attributeOffset, bytesPerPoint, counted.grid,
             counted.numOccupiedCells, j)

\* an entry of attributeBuffers
AttributeBuffer(buffer, preciseBuffer, offset, scale) ==
  [ buffer |-> buffer, preciseBuffer |-> preciseBuffer,
    offset |-> offset, scale |-> scale ]

\* An entry without preciseBuffer, offset and scale: undefined is NaN in
\* arithmetic, and no element can be read from the missing array.
Undefined == NaN
NoBuffer == << >>

\* The branch for POSITION_CARTESIAN / position: the Float32Array.
DecodePosition(data, attributeOffset, bytesPerPoint) ==
  AttributeBuffer(
    [ i \in 1 .. 3 * data.numPoints |->
        ToFloat32(Coordinate(data, attributeOffset, bytesPerPoint,
                             (i - 1) \div 3, (i - 1) % 3)) ],
    NoBuffer, Undefined, Undefined)

\* one colour channel as it is stored
Channel(v) == ToUint8(IF v > 255 THEN Rat(v, 256) ELSE Num(v))

\* The branch for RGBA / rgba: the Uint8Array, 4 bytes a point, of which
\* the fourth is never written.
DecodeColor(data, attributeOffset, bytesPerPoint) ==
  AttributeBuffer(
    [ i \in 1 .. 4 * data.numPoints |->
        IF (i - 1) % 4 = 3 THEN 0
        ELSE Channel(getUint(data.buffer,
                             ((i - 1) \div 4) * bytesPerPoint + attributeOffset
                               + 2 * ((i - 1) % 4), 2)) ],
    NoBuffer, Undefined, Undefined)

\* The branch for every other attribute, given a getter.
DecodeScalar(data, attribute, attributeOffset, bytesPerPoint) ==
  LET method == getterMap[attribute.type]
      packed == TypeSizes[attribute.type] > 4
      offset == IF packed THEN attribute.range[1] ELSE Num(0)
      scale == IF packed
                 THEN NDiv(Num(1), NSub(attribute.range[2], attribute.range[1]))
                 ELSE Num(1)
      value(j) == Getter(method, data.buffer, j * bytesPerPoint + attributeOffset)
  IN AttributeBuffer(
       [ i \in 1 .. data.numPoints |->
           ToFloat32(NMul(NSub(value(i - 1), offset), scale)) ],
       [ i \in 1 .. data.numPoints |-> value(i - 1) ],
       offset, scale)

\* the bytes per point an attribute's branch reads, from the attribute's
\* offset on
BytesRead(attribute) ==
  IF attribute.name \in { "POSITION_CARTESIAN", "position" } THEN 12
  ELSE IF attribute.name \in { "RGBA", "rgba" } THEN 6
  ELSE GetterSizes[getterMap[attribute.type]]

\* The end of one pass of the loop: the attribute's buffer is stored, the
\* offset moves on and the counts of the position branch are kept.
AfterAttribute(st, attribute, decoded, counted) ==
  [ st EXCEPT
      !.attributeBuffers =
         [ n \in DOMAIN st.attributeBuffers \cup { attribute.name } |->
             IF n = attribute.name THEN decoded ELSE st.attributeBuffers[n] ],
      !.attributeOffset = @ + attribute.byteSize,
      !.grid = counted.grid,
      !.numOccupiedCells = counted.numOccupiedCells ]

\* The loop over pointAttributes.attributes from attribute a on.  st holds
\* attributeBuffers, attributeOffset, the grid and numOccupiedCells.
RECURSIVE DecodeAttributes(_, _, _, _)
DecodeAttributes(data, bytesPerPoint, st, a) ==
  IF a > Len(data.attributes) THEN st
  ELSE LET attribute == data.attributes[a]
           generic == attribute.name \notin
                        { "POSITION_CARTESIAN", "position", "RGBA", "rgba" }
       IN IF generic /\ attribute.type \notin DOMAIN getterMap
            THEN [ st EXCEPT !.thrown = TRUE, !.error = "TypeError" ]
          ELSE IF \E j \in 0 .. data.numPoints - 1 :
                    ~InBounds(data.buffer, j * bytesPerPoint + st.attributeOffset,
                              BytesRead(attribute))
            THEN [ st EXCEPT !.thrown = TRUE, !.error = "RangeError" ]
          ELSE DecodeAttributes(data, bytesPerPoint,
                 AfterAttribute(st, attribute,
                   IF attribute.name \in { "POSITION_CARTESIAN", "position" }
                     THEN DecodePosition(data, st.attributeOffset, bytesPerPoint)
                   ELSE IF attribute.name \in { "RGBA", "rgba" }
                     THEN DecodeColor(data, st.attributeOffset, bytesPerPoint)
                   ELSE DecodeScalar(data, attribute, st.attributeOffset,
                                     bytesPerPoint),
                   IF attribute.name \in { "POSITION_CARTESIAN", "position" }
                     THEN CountCells(data, st.attributeOffset, bytesPerPoint,
                                     st.grid, st.numOccupiedCells, 0)
                     ELSE [ grid |-> st.grid,
                            numOccupiedCells |-> st.numOccupiedCells ]),
                 a + 1)

\* the position without the stride of a point
VectorIndexNoStride(j, numVectorElements, iElement) == j + iElement

\* the position of component iElement of point j in a vector's buffer
VectorIndex(j, numVectorElements, iElement) == j * numVectorElements + iElement

\* The Float32Array of one vector: element i (0-based) comes from the
\* display buffer of the source its position names.
DecodeVector(attributeBuffers, vector, numPoints) ==
  LET numVectorElements == Len(vector.attributes)
      source(iElement) == attributeBuffers[vector.attributes[iElement + 1]]
      written(i) ==
        { << j, iElement >> \in (0 .. numPoints - 1) \X (0 .. numVectorElements - 1) :
            VectorIndex(j, numVectorElements, iElement) = i }
      last(i) ==
        CHOOSE w \in written(i) :
          \A v \in written(i) : v[2] < w[2] \/ (v[2] = w[2] /\ v[1] <= w[1])
  IN AttributeBuffer(
       [ i \in 1 .. numVectorElements * numPoints |->
           IF written(i - 1) = { } THEN Num(0)
           ELSE LET w == last(i - 1)
                    s == source(w[2])
                IN ToFloat32(NAdd(NDiv(s.buffer[w[1] + 1], s.scale), s.offset)) ],
       NoBuffer, Undefined, Undefined)

\* The loop over pointAttributes.vectors from vector v on.
RECURSIVE DecodeVectors(_, _, _)
DecodeVectors(data, st, v) ==
  IF v > Len(data.vectors) THEN st
  ELSE LET vector == data.vectors[v]
       IN IF \E k \in 1 .. Len(vector.attributes) :
               vector.attributes[k] \notin DOMAIN st.attributeBuffers
            THEN [ st EXCEPT !.thrown = TRUE, !.error = "TypeError" ]
            ELSE LET decoded == DecodeVector(st.attributeBuffers, vector,
                                             data.numPoints)
                     names == DOMAIN st.attributeBuffers \cup { vector.name }
                 IN DecodeVectors(data,
                      [ st EXCEPT !.attributeBuffers =
                          [ n \in names |-> IF n = vector.name THEN decoded
                                            ELSE st.attributeBuffers[n] ] ],
                      v + 1)

\* the sum of the byteSize of the attributes from a on
RECURSIVE SumByteSize(_, _)
SumByteSize(attributes, a) ==
  IF a > Len(attributes) THEN 0
  ELSE attributes[a].byteSize + SumByteSize(attributes, a + 1)

\* After the attributes: the INDICES buffer is added and the vectors are
\* decoded, unless an attribute threw.
IndicesAndVectors(data, st) ==
  IF st.thrown THEN st
  ELSE DecodeVectors(data,
         [ st EXCEPT !.attributeBuffers =
             [ n \in DOMAIN st.attributeBuffers \cup { "INDICES" } |->
                 IF n = "INDICES"
                   THEN AttributeBuffer([ i \in 1 .. data.numPoints |-> i - 1 ],
                                        NoBuffer, Undefined, Undefined)
                   ELSE st.attributeBuffers[n] ] ],
         1)

\* the message posted at the end, or the error thrown before it
PostResult(data, st) ==
  [ thrown |-> st.thrown,
    error |-> st.error,
    attributeBuffers |-> IF st.thrown THEN << >> ELSE st.attributeBuffers,
    density |-> IF st.thrown THEN Undefined
                ELSE NDiv(Num(data.numPoints), Num(st.numOccupiedCells)),
    grid |-> st.grid,
    numOccupiedCells |-> st.numOccupiedCells ]

\* handleMessage: either it throws, and no message is posted, or it posts
\* attributeBuffers and density.
handleMessage(data) ==
  PostResult(data,
    IndicesAndVectors(data,
      DecodeAttributes(data, SumByteSize(data.attributes, 1),
        [ attributeBuffers |-> << >>, attributeOffset |-> 0,
          grid |-> << >>, numOccupiedCells |-> 0,
          thrown |-> FALSE, error |-> "none" ],
        1)))

(***************************************************************************)
(* OctreeLoader.parseAttributes.  The metadata is parsed JSON: a value is  *)
(* a number or an array, and every array is an object of its own, named    *)
(* here by ref.                                                            *)
(***************************************************************************)
JsNumber(x) == [ type |-> "number", num |-> x, ref |-> 0, elems |-> << >> ]
JsArray(ref, elems) == [ type |-> "object", num |-> NaN, ref |-> ref, elems |-> elems ]

\* a === b: numbers by value (NaN equals nothing), objects by identity
StrictEquals(a, b) ==
  /\ a.type = b.type
  /\ IF a.type = "number" THEN a.num # NaN /\ a.num = b.num ELSE a.ref = b.ref

\* typenameTypeattributeMap, with the entries of PointAttributeTypes
typenameTypeattributeMap ==
  [ double |-> [ ordinal |-> 0, name |-> "double", size |-> 8 ],
    float |-> [ ordinal |-> 1, name |-> "float", size |-> 4 ],
    int8 |-> [ ordinal |-> 2, name |-> "int8", size |-> 1 ],
    uint8 |-> [ ordinal |-> 3, name |-> "uint8", size |-> 1 ],
    int16 |-> [ ordinal |-> 4, name |-> "int16", size |-> 2 ],
    uint16 |-> [ ordinal |-> 5, name |-> "uint16", size |-> 2 ],
    int32 |-> [ ordinal |-> 6, name |-> "int32", size |-> 4 ],
    uint32 |-> [ ordinal |-> 7, name |-> "uint32", size |-> 4 ],
    int64 |-> [ ordinal |-> 8, name |-> "int64", size |-> 8 ],
    uint64 |-> [ ordinal |-> 9, name |-> "uint64", size |-> 8 ] ]

\* replacements[name] ? replacements[name] : name
replacements(name) == IF name = "rgb" THEN "rgba" ELSE name

\* numElements === 1 ? [min[0], max[0]] : [min, max]
DeclaredRange(jsonAttribute) ==
  IF jsonAttribute.numElements = 1
    THEN << JsNumber(jsonAttribute.min.elems[1]), JsNumber(jsonAttribute.max.elems[1]) >>
    ELSE << jsonAttribute.min, jsonAttribute.max >>

\* the widening ignores whether the two ends are equal
GpsTimeRangeAlways(name, range) ==
  IF name = "gps-time" /\ range[2].type = "number"
    THEN << range[1], JsNumber(NAdd(range[2].num, Num(1))) >>
    ELSE range

\* the guard against a bad gps-time range: attribute.range[1] += 1
GpsTimeRange(name, range) ==
  IF name = "gps-time" /\ StrictEquals(range[1], range[2])
       /\ range[2].type = "number"
    THEN << range[1], JsNumber(NAdd(range[2].num, Num(1))) >>
    ELSE range

\* the attribute one pass of the loop adds; type is a known type name
ParsedAttribute(jsonAttribute, range) ==
  [ name |-> replacements(jsonAttribute.name),
    type |-> typenameTypeattributeMap[jsonAttribute.type],
    numElements |-> jsonAttribute.numElements,
    byteSize |-> jsonAttribute.numElements
                   * typenameTypeattributeMap[jsonAttribute.type].size,
    range |-> range,
    initialRange |-> range ]

\* The loop over jsonAttributes from entry i on: type.size of an unknown
\* type name throws a TypeError.
RECURSIVE ParseAttributeLoop(_, _, _)
ParseAttributeLoop(jsonAttributes, attributes, i) ==
  IF i > Len(jsonAttributes) THEN [ thrown |-> FALSE, attributes |-> attributes ]
  ELSE IF jsonAttributes[i].type \notin DOMAIN typenameTypeattributeMap
    THEN [ thrown |-> TRUE, attributes |-> attributes ]
  ELSE ParseAttributeLoop(jsonAttributes,
         Append(attributes,
                ParsedAttribute(jsonAttributes[i],
                  GpsTimeRange(jsonAttributes[i].name,
                               DeclaredRange(jsonAttributes[i])))),
         i + 1)

\* hasNormals
hasNormals(attributes) ==
  \A name \in { "NormalX", "NormalY", "NormalZ" } :
    \E k \in 1 .. Len(attributes) : attributes[k].name = name

\* the PointAttributes returned, or the fact that the call threw
PointAttributesOf(parsed) ==
  [ thrown |-> parsed.thrown,
    attributes |-> IF parsed.thrown THEN << >> ELSE parsed.attributes,
    vectors |-> IF ~parsed.thrown /\ hasNormals(parsed.attributes)
                  THEN << [ name |-> "NORMAL",
                            attributes |-> << "NormalX", "NormalY", "NormalZ" >> ] >>
                  ELSE << >> ]

parseAttributes(jsonAttributes) ==
  PointAttributesOf(ParseAttributeLoop(jsonAttributes, << >>, 1))

(***************************************************************************)
(* State                                                                   *)
(***************************************************************************)
VARIABLES
  nodes,            \* name -> OctreeGeometryNode, for every node constructed
  tasks,            \* the NodeLoader.load invocations suspended at an await
  workers,          \* NodeLoader.workers, the free list
  created,          \* number of Worker objects constructed by getWorker
  jobs,             \* per worker: the messages posted to it and not answered
  onmessage,        \* per worker: the node captured by its onmessage closure
  terminated,       \* the workers terminate() was called on
  disposed,         \* NodeLoader.disposed
  octreeDisposed,   \* OctreeGeometry.disposed
  geometries,       \* number of BufferGeometry objects constructed
  calls,            \* number of NodeLoader.load calls made
  fetchCalls,       \* per node: fetches issued since loading was last cleared
  outcome,          \* per node: how its latest load ended, or "pending"
  disposedInFlight, \* nodes whose load was pending when dispose ran
  handlerRuns,      \* per one-time dispose handler: times it was invoked
  calc              \* a call of a pure function: its arguments and its result

workerVars == << workers, created, jobs, onmessage >>
loaderVars == << nodes, tasks, workers, created, jobs, onmessage, terminated,
                 disposed, octreeDisposed, geometries, calls, fetchCalls,
                 outcome, disposedInFlight, handlerRuns >>
vars == << loaderVars, calc >>

\* no pure function is being called
NoCall == [ op |-> "none" ]

\* metadata.hierarchy.firstChunkSize of the dataset
firstChunkSize == 66

Densities == { 1 }

NoFetches == [ hierarchy |-> 0, payload |-> 0 ]

FailureOutcomes ==
  { "hierarchyFetch", "hierarchyLength", "hierarchyParse", "payloadFetch", "decode" }

Task(id, node, pc, first, last) ==
  [ id |-> id, node |-> node, pc |-> pc, first |-> first, last |-> last ]

\* A function extended to the domain of ns, new entries getting d.
Extend(f, ns, d) == [ n \in DOMAIN ns |-> IF n \in DOMAIN f THEN f[n] ELSE d ]

Range(s) == { s[i] : i \in 1 .. Len(s) }

(***************************************************************************)
(* OctreeLoader.load: the state when its promise resolves.  The root is a  *)
(* proxy and loader.load(root) has run up to the hierarchy fetch.          *)
(***************************************************************************)
LoaderInit ==
  /\ nodes = [ n \in { RootName } |->
                 [ NewNode(NoNode, 0) EXCEPT !.nodeType = ProxyType,
                                             !.hierarchyByteSize = firstChunkSize,
                                             !.loading = TRUE ] ]
  /\ tasks = { Task(1, RootName, "hierarchyFetch", 0, firstChunkSize - 1) }
  /\ workers = << >>
  /\ created = 0
  /\ jobs = << >>
  /\ onmessage = << >>
  /\ terminated = { }
  /\ disposed = FALSE
  /\ octreeDisposed = FALSE
  /\ geometries = 0
  /\ calls = 1
  /\ fetchCalls = [ n \in { RootName } |-> [ hierarchy |-> 1, payload |-> 0 ] ]
  /\ outcome = [ n \in { RootName } |-> "pending" ]
  /\ disposedInFlight = { }
  /\ handlerRuns = << >>

Init ==
  /\ LoaderInit
  /\ calc = NoCall

(***************************************************************************)
(* NodeLoader: the worker pool                                             *)
(***************************************************************************)
\* getWorker reading the last handle without removing it
PoolNotPopped(ws) == ws

\* this.workers after getWorker's pop()
PoolAfterPop(ws) == IF ws = << >> THEN ws ELSE SubSeq(ws, 1, Len(ws) - 1)

\* getWorker: the popped handle, or a newly constructed worker.
getWorker(ws, count) == IF ws # << >> THEN ws[Len(ws)] ELSE count + 1

\* releaseWorker
releaseWorker(ws, worker) == Append(ws, worker)

\* message posted to the worker (the fields the loader's state decides)
Job(name, byteLength, numPoints) ==
  [ name |-> name, byteLength |-> byteLength, numPoints |-> numPoints ]

\* Lines 140-220 of load, run once the payload buffer is there: the worker
\* is taken, its onmessage closure over (node, worker) is installed and the
\* decode job is posted.
Dispatch(n, byteLength, numPoints) ==
  LET worker == getWorker(workers, created)
      isNew == worker > created
  IN /\ workers' = PoolAfterPop(workers)
     /\ created' = IF isNew THEN created + 1 ELSE created
     /\ onmessage' = IF isNew THEN Append(onmessage, n)
                     ELSE [ onmessage EXCEPT ![worker] = n ]
     /\ jobs' = IF isNew THEN Append(jobs, << Job(n, byteLength, numPoints) >>)
                ELSE [ jobs EXCEPT ![worker] =
                         Append(@, Job(n, byteLength, numPoints)) ]

(***************************************************************************)
(* NodeLoader.load                                                         *)
(***************************************************************************)
\* load without its guard
LoadGuardOff(node) == FALSE

\* the guard that makes load return at once
LoadGuard(node) == node.loading \/ node.loading

\* a catch block that forgets to clear loading
CatchLoadKeepsLoading(node) == [ node EXCEPT !.loaded = FALSE ]

\* the catch block of load
CatchLoad(node) == [ node EXCEPT !.loaded = FALSE, !.loading = FALSE ]

\* an onmessage that forgets to set loaded
OnMessageNotLoaded(node, density, geometry) ==
  [ node EXCEPT !.density = density,
                !.geometry = geometry,
                !.loading = FALSE,
                !.failed = FALSE ]

\* the assignments of worker.onmessage to the node
OnMessage(node, density, geometry) ==
  [ node EXCEPT !.density = density,
                !.geometry = geometry,
                !.loaded = TRUE,
                !.loading = FALSE,
                !.failed = FALSE ]

\* load reading byteOffset/byteSize before it awaits loadHierarchy: the
\* values the node had when load was entered
PayloadStepStaleRange(ns, n, id, rest, fc) ==
  LET old == IF n \in DOMAIN nodes THEN nodes[n] ELSE ns[n]
  IN /\ nodes' = ns
     /\ IF old.byteSize = 0
          THEN /\ tasks' = rest
               /\ fetchCalls' = fc
               /\ Dispatch(n, 0, ns[n].numPoints)
          ELSE /\ tasks' = rest \cup
                    { Task(id, n, "payloadFetch", old.byteOffset,
                           old.byteOffset + old.byteSize - 1) }
               /\ fetchCalls' = [ fc EXCEPT ![n].payload = @ + 1 ]
               /\ UNCHANGED workerVars

\* load without the byteSize === 0 branch: the range is always fetched
PayloadStepAlwaysFetch(ns, n, id, rest, fc) ==
  /\ nodes' = ns
  /\ tasks' = rest \cup
       { Task(id, n, "payloadFetch", ns[n].byteOffset,
              ns[n].byteOffset + ns[n].byteSize - 1) }
  /\ fetchCalls' = [ fc EXCEPT ![n].payload = @ + 1 ]
  /\ UNCHANGED workerVars

\* Lines 119-220: load from the read of byteOffset/byteSize up to its next
\* suspension (the payload fetch) or its end (the job is posted).  ns are
\* the nodes, rest the other suspended loads, fc the fetch counts.
PayloadStep(ns, n, id, rest, fc) ==
  /\ nodes' = ns
  /\ IF ns[n].byteSize = 0
       THEN /\ tasks' = rest
            /\ fetchCalls' = fc
            /\ Dispatch(n, 0, ns[n].numPoints)
       ELSE /\ tasks' = rest \cup
                 { Task(id, n, "payloadFetch", ns[n].byteOffset,
                        ns[n].byteOffset + ns[n].byteSize - 1) }
            /\ fetchCalls' = [ fc EXCEPT ![n].payload = @ + 1 ]
            /\ UNCHANGED workerVars

\* The catch block, entered from the suspended load t.
Catch(ns, t, cause) ==
  /\ nodes' = [ ns EXCEPT ![t.node] = CatchLoad(@) ]
  /\ tasks' = tasks \ { t }
  /\ fetchCalls' = [ Extend(fetchCalls, ns, NoFetches) EXCEPT ![t.node] = NoFetches ]
  /\ outcome' = [ Extend(outcome, ns, "none") EXCEPT ![t.node] = cause ]
  /\ disposedInFlight' = disposedInFlight \ { t.node }
  /\ UNCHANGED << workerVars, terminated, disposed, octreeDisposed, geometries,
                  calls, handlerRuns >>

\* A call load(node), run up to its first await or to its end.
Load(n) ==
  /\ calls < MaxLoadCalls
  /\ calls' = calls + 1
  /\ IF LoadGuard(nodes[n])
       THEN UNCHANGED << nodes, tasks, workerVars, fetchCalls, outcome,
                         disposedInFlight >>
       ELSE LET ns == [ nodes EXCEPT ![n].loading = TRUE ]
            IN /\ outcome' = [ outcome EXCEPT ![n] = "pending" ]
               /\ disposedInFlight' = disposedInFlight \ { n }
               /\ IF ns[n].nodeType = ProxyType
                    THEN /\ nodes' = ns
                         /\ tasks' = tasks \cup
                              { Task(calls + 1, n, "hierarchyFetch",
                                     ns[n].hierarchyByteOffset,
                                     ns[n].hierarchyByteOffset
                                       + ns[n].hierarchyByteSize - 1) }
                         /\ fetchCalls' = [ fetchCalls EXCEPT ![n].hierarchy = @ + 1 ]
                         /\ UNCHANGED workerVars
                    ELSE PayloadStep(ns, n, calls + 1, tasks, fetchCalls)
  /\ UNCHANGED << terminated, disposed, octreeDisposed, geometries, handlerRuns >>
  /\ UNCHANGED calc

\* loadHierarchy: the fetch of the hierarchy range resolves with a response.
HierarchyFetchResolve(t) ==
  /\ t.pc = "hierarchyFetch"
  /\ tasks' = (tasks \ { t }) \cup { [ t EXCEPT !.pc = "hierarchyBody" ] }
  /\ UNCHANGED << nodes, workerVars, terminated, disposed, octreeDisposed,
                  geometries, calls, fetchCalls, outcome, disposedInFlight,
                  handlerRuns >>
  /\ UNCHANGED calc

\* loadHierarchy: response.arrayBuffer() resolves with a chunk, which is
\* parsed; load then goes on with the payload, or ends in its catch block
\* when parseHierarchy threw.
HierarchyBodyResolve(t, buffer) ==
  /\ t.pc = "hierarchyBody"
  /\ LET parsed == parseHierarchy(nodes, t.node, buffer)
     IN IF parsed.thrown
          THEN Catch(parsed.nodes, t,
                     IF parsed.error = "RangeError" THEN "hierarchyLength"
                     ELSE "hierarchyParse")
          ELSE /\ PayloadStep(parsed.nodes, t.node, t.id, tasks \ { t },
                              Extend(fetchCalls, parsed.nodes, NoFetches))
               /\ outcome' = Extend(outcome, parsed.nodes, "none")
               /\ UNCHANGED << terminated, disposed, octreeDisposed, geometries,
                               calls, disposedInFlight, handlerRuns >>
  /\ UNCHANGED calc

\* The hierarchy fetch, or the read of its body, rejects.
HierarchyFetchReject(t) ==
  /\ t.pc \in { "hierarchyFetch", "hierarchyBody" }
  /\ Catch(nodes, t, "hierarchyFetch")
  /\ UNCHANGED calc

\* The fetch of the payload range resolves with a response.
PayloadFetchResolve(t) ==
  /\ t.pc = "payloadFetch"
  /\ tasks' = (tasks \ { t }) \cup { [ t EXCEPT !.pc = "payloadBody" ] }
  /\ UNCHANGED << nodes, workerVars, terminated, disposed, octreeDisposed,
                  geometries, calls, fetchCalls, outcome, disposedInFlight,
                  handlerRuns >>
  /\ UNCHANGED calc

\* response.arrayBuffer() resolves with the requested range; the job is
\* posted and load returns.
PayloadBodyResolve(t) ==
  /\ t.pc = "payloadBody"
  /\ tasks' = tasks \ { t }
  /\ Dispatch(t.node, t.last - t.first + 1, nodes[t.node].numPoints)
  /\ UNCHANGED << nodes, terminated, disposed, octreeDisposed, geometries,
                  calls, fetchCalls, outcome, disposedInFlight, handlerRuns >>
  /\ UNCHANGED calc

\* The payload fetch, or the read of its body, rejects.
PayloadFetchReject(t) ==
  /\ t.pc \in { "payloadFetch", "payloadBody" }
  /\ Catch(nodes, t, "payloadFetch")
  /\ UNCHANGED calc

(***************************************************************************)
(* The decode worker, seen from the loader                                 *)
(***************************************************************************)
\* The worker posts the result of its oldest job: worker.onmessage runs.
WorkerResult(w, density) ==
  /\ jobs[w] # << >>
  /\ w \notin terminated
  /\ LET n == onmessage[w]
     IN /\ nodes' = [ nodes EXCEPT ![n] = OnMessage(@, density, geometries + 1) ]
        /\ fetchCalls' = [ fetchCalls EXCEPT ![n] = NoFetches ]
        /\ outcome' = [ outcome EXCEPT ![n] = "loaded" ]
        /\ disposedInFlight' = disposedInFlight \ { n }
  /\ geometries' = geometries + 1
  /\ workers' = releaseWorker(workers, w)
  /\ jobs' = [ jobs EXCEPT ![w] = Tail(@) ]
  /\ UNCHANGED << tasks, created, onmessage, terminated, disposed,
                  octreeDisposed, calls, handlerRuns >>
  /\ UNCHANGED calc

\* handleMessage throws on the worker's oldest job: no message is posted
\* and the loader, which installs no onerror handler, is not told.
WorkerFail(w) ==
  /\ jobs[w] # << >>
  /\ w \notin terminated
  /\ jobs' = [ jobs EXCEPT ![w] = Tail(@) ]
  /\ outcome' = [ outcome EXCEPT ![Head(jobs[w]).name] = "decode" ]
  /\ UNCHANGED << nodes, tasks, workers, created, onmessage, terminated,
                  disposed, octreeDisposed, geometries, calls, fetchCalls,
                  disposedInFlight, handlerRuns >>
  /\ UNCHANGED calc

(***************************************************************************)
(* Disposal                                                                *)
(***************************************************************************)
\* The caller pushes a handler onto node.oneTimeDisposeHandlers.
AddDisposeHandler(n) ==
  /\ Len(handlerRuns) < MaxHandlers
  /\ nodes' = [ nodes EXCEPT ![n].oneTimeDisposeHandlers =
                  Append(@, Len(handlerRuns) + 1) ]
  /\ handlerRuns' = Append(handlerRuns, 0)
  /\ UNCHANGED << tasks, workerVars, terminated, disposed, octreeDisposed,
                  geometries, calls, fetchCalls, outcome, disposedInFlight >>
  /\ UNCHANGED calc

\* A call node.dispose().
NodeDispose(n) ==
  /\ LET r == NodeDisposeOp(nodes, handlerRuns, n)
     IN /\ nodes' = r.nodes
        /\ handlerRuns' = r.handlerRuns
  /\ UNCHANGED << tasks, workerVars, terminated, disposed, octreeDisposed,
                  geometries, calls, fetchCalls, outcome, disposedInFlight >>
  /\ UNCHANGED calc

\* OctreeGeometry.dispose: NodeLoader.dispose, then node.dispose() on the
\* nodes root.traverse(cb) visits.
Dispose ==
  /\ terminated' = terminated \cup Range(workers)
  /\ workers' = << >>
  /\ disposed' = TRUE
  /\ LET visited == traverse(nodes, RootName, "undefined")
         r == DisposeAll(nodes, handlerRuns, visited, 1)
     IN /\ nodes' = r.nodes
        /\ handlerRuns' = r.handlerRuns
  /\ octreeDisposed' = TRUE
  /\ disposedInFlight' =
       disposedInFlight \cup { n \in DOMAIN nodes : outcome[n] = "pending" }
  /\ UNCHANGED << tasks, created, jobs, onmessage, geometries, calls,
                  fetchCalls, outcome >>
  /\ UNCHANGED calc

Next ==
  \/ \E n \in DOMAIN nodes : Load(n)
  \/ \E t \in tasks : HierarchyFetchResolve(t)
  \/ \E t \in tasks : \E buffer \in RangeBodies(t.first, t.last) :
        HierarchyBodyResolve(t, buffer)
  \/ \E t \in tasks : HierarchyFetchReject(t)
  \/ \E t \in tasks : PayloadFetchResolve(t)
  \/ \E t \in tasks : PayloadBodyResolve(t)
  \/ \E t \in tasks : PayloadFetchReject(t)
  \/ \E w \in 1 .. created : \E density \in Densities : WorkerResult(w, density)
  \/ \E w \in 1 .. created : WorkerFail(w)
  \/ \E n \in DOMAIN nodes : AddDisposeHandler(n)
  \/ \E n \in DOMAIN nodes : NodeDispose(n)
  \/ Dispose

Spec == Init /\ [][Next]_vars

\* Every fetch and every body read is settled in the end, and every worker
\* with a job either posts its result or fails in the end.
Fairness ==
  /\ WF_vars(\E t \in tasks : HierarchyFetchResolve(t) \/ HierarchyFetchReject(t))
  /\ WF_vars(\E t \in tasks :
               \/ \E buffer \in RangeBodies(t.first, t.last) :
                    HierarchyBodyResolve(t, buffer)
               \/ HierarchyFetchReject(t))
  /\ WF_vars(\E t \in tasks : PayloadFetchResolve(t) \/ PayloadFetchReject(t))
  /\ WF_vars(\E t \in tasks : PayloadBodyResolve(t) \/ PayloadFetchReject(t))
  /\ WF_vars(\E w \in 1 .. created :
               \/ \E density \in Densities : WorkerResult(w, density)
               \/ WorkerFail(w))

FairSpec == Spec /\ Fairness

(***************************************************************************)
(* parseHierarchy called on its own: a proxy node and a buffer go in, the  *)
(* nodes and the work list come out.                                       *)
(***************************************************************************)
\* the longest buffer tried, in records
MaxRecords == 2

ChildMasks == { 0, 3, 5, 128 }

ParseRecords == { Rec(type, childMask, 7, 44, 22) :
                    type \in 0 .. 2, childMask \in ChildMasks }

RECURSIVE SeqsUpTo(_, _)
SeqsUpTo(S, k) ==
  IF k = 0 THEN { << >> }
  ELSE LET shorter == SeqsUpTo(S, k - 1)
       IN shorter \cup { Append(q, x) : q \in shorter, x \in S }

ParseBuffers ==
  { [ records |-> rs, rest |-> rest ] :
      rs \in SeqsUpTo(ParseRecords, MaxRecords), rest \in { 0, 1 } }

\* the nodes after the root's first chunk has been parsed
ExpandedRoot == parseHierarchy(nodes, RootName, ChunkTree).nodes

\* The proxies parseHierarchy is called on: the root as OctreeLoader.load
\* makes it, and every proxy child its first chunk has announced.
ParseStarts ==
  { [ nodes |-> nodes, node |-> RootName ] }
    \cup { [ nodes |-> ExpandedRoot, node |-> n ] :
             n \in { m \in DOMAIN ExpandedRoot :
                       ExpandedRoot[m].nodeType = ProxyType } }

\* the call has not returned
NoResult(ns) ==
  [ nodes |-> ns, list |-> << >>, thrown |-> FALSE, error |-> "pending" ]

ParseInit ==
  /\ LoaderInit
  /\ calc \in { [ op |-> "parseHierarchy", done |-> FALSE, nodes |-> st.nodes,
                   node |-> st.node, buffer |-> b,
                   result |-> NoResult(st.nodes) ] :
                 st \in ParseStarts, b \in ParseBuffers }

ParseCall ==
  /\ calc.op = "parseHierarchy"
  /\ ~calc.done
  /\ calc' = [ calc EXCEPT
                !.done = TRUE,
                !.result = parseHierarchy(calc.nodes, calc.node, calc.buffer) ]
  /\ UNCHANGED loaderVars

ParseSpec == ParseInit /\ [][ParseCall]_vars

(***************************************************************************)
(* handleMessage called on its own: a job message goes in; the posted      *)
(* message, or the fact that the call threw, comes out.                    *)
(***************************************************************************)
\* the most points a job holds
MaxPoints == 3

\* the little-endian bytes of an integer, negative ones in two's complement
RECURSIVE Bytes(_, _)
Bytes(value, size) ==
  IF size = 0 THEN << >>
  ELSE << value % 256 >> \o Bytes(value \div 256, size - 1)

\* the concatenation of the byte groups of a sequence
RECURSIVE Concat(_)
Concat(groups) ==
  IF groups = << >> THEN << >> ELSE Head(groups) \o Concat(Tail(groups))

Vec3(a) == << a, a, a >>

\* The message load posts: offset is the dataset's offset and min is
\* offset + box.min; both are taken as 0 here.
JobMessage(attributes, vectors, buffer, numPoints, scale, size) ==
  [ buffer |-> buffer, attributes |-> attributes, vectors |-> vectors,
    scale |-> Vec3(scale), offset |-> Vec3(Num(0)), min |-> Vec3(Num(0)),
    size |-> Vec3(size), numPoints |-> numPoints ]

\* the call has not returned
NoMessage ==
  [ thrown |-> FALSE, error |-> "pending", attributeBuffers |-> << >>,
    density |-> Undefined, grid |-> << >>, numOccupiedCells |-> 0 ]

\* a call of handleMessage on a job made of the given points
DecodeCall(points, data) ==
  [ op |-> "handleMessage", done |-> FALSE, points |-> points, data |-> data,
    result |-> NoMessage ]

Decode ==
  /\ calc.op = "handleMessage"
  /\ ~calc.done
  /\ calc' = [ calc EXCEPT !.done = TRUE, !.result = handleMessage(calc.data) ]
  /\ UNCHANGED loaderVars

\* the attributes parseAttributes makes of the metadata entries "position"
\* (3 int32) and "rgb" (3 uint16)
PositionAttribute ==
  [ name |-> "position", type |-> "int32", byteSize |-> 3 * TypeSizes["int32"],
    range |-> << Num(0), Num(0) >> ]
ColorAttribute ==
  [ name |-> "rgba", type |-> "uint16", byteSize |-> 3 * TypeSizes["uint16"],
    range |-> << Num(0), Num(0) >> ]

\* Jobs with positions only.  A point is its three stored integers.
PositionPoints == { << x, y, 1 >> : x \in { -1, 0, 1, 33 }, y \in { 0, 31 } }
PositionScales == { Num(1), Rat(1, 2) }
PositionSizes == { Num(32), Num(3) }

PositionBuffer(points) ==
  Concat([ j \in 1 .. Len(points) |->
             Bytes(points[j][1], 4) \o Bytes(points[j][2], 4)
               \o Bytes(points[j][3], 4) ])

PositionInit ==
  /\ LoaderInit
  /\ calc \in { DecodeCall(points,
                   JobMessage(<< PositionAttribute >>, << >>,
                              PositionBuffer(points), Len(points), scale, size)) :
                 points \in SeqsUpTo(PositionPoints, MaxPoints),
                 scale \in PositionScales, size \in PositionSizes }

PositionSpec == PositionInit /\ [][Decode]_vars

\* Jobs with colours only.  A point is its three stored 16-bit channels:
\* every value of a channel in a job of one point, and a few longer jobs.
MaxChannel == 65535
ColorPoints == { << 200, 512, MaxChannel >>, << 255, 256, 0 >> }

ColorBuffer(points) ==
  Concat([ j \in 1 .. Len(points) |->
             Bytes(points[j][1], 2) \o Bytes(points[j][2], 2)
               \o Bytes(points[j][3], 2) ])

ColorInit ==
  /\ LoaderInit
  /\ calc \in { DecodeCall(points,
                   JobMessage(<< ColorAttribute >>, << >>, ColorBuffer(points),
                              Len(points), Num(1), Num(32))) :
                 points \in { << << v, v, v >> >> : v \in 0 .. MaxChannel }
                              \cup SeqsUpTo(ColorPoints, MaxPoints) }

ColorSpec == ColorInit /\ [][Decode]_vars

\* Jobs with one scalar attribute of a given type.  A point is a value and
\* the bytes that store it.
ScalarSamples(type) ==
  IF type \in { "int8", "int16", "int32", "int64" }
    THEN { [ value |-> Num(v), bytes |-> Bytes(v, TypeSizes[type]) ] : v \in { -1, 2 } }
  ELSE IF type \in { "uint8", "uint16", "uint32", "uint64" }
    THEN { [ value |-> Num(v), bytes |-> Bytes(v, TypeSizes[type]) ] : v \in { 1, 200 } }
  ELSE IF type = "float"
    THEN { [ value |-> Num(1), bytes |-> << 0, 0, 128, 63 >> ],
           [ value |-> Rat(5, 2), bytes |-> << 0, 0, 32, 64 >> ] }
  ELSE { [ value |-> Num(1), bytes |-> << 0, 0, 0, 0, 0, 0, 240, 63 >> ],
         [ value |-> Rat(5, 2), bytes |-> << 0, 0, 0, 0, 0, 0, 4, 64 >> ] }

\* the attribute parseAttributes makes of a one-element metadata entry
\* with min 0 and max 4
ScalarAttribute(name, type) ==
  [ name |-> name, type |-> type, byteSize |-> TypeSizes[type],
    range |-> << Num(0), Num(4) >> ]

ScalarInit ==
  /\ LoaderInit
  /\ \E type \in DOMAIN TypeSizes :
       \E points \in SeqsUpTo(ScalarSamples(type), MaxPoints) :
         calc = DecodeCall(points,
                  JobMessage(<< ScalarAttribute("intensity", type) >>, << >>,
                             Concat([ j \in 1 .. Len(points) |-> points[j].bytes ]),
                             Len(points), Num(1), Num(32)))

ScalarSpec == ScalarInit /\ [][Decode]_vars

\* Jobs with the three normal components, for which parseAttributes adds
\* the vector NORMAL.  A point is its three stored values, each 1, 2 or 3.
NormalNames == << "NormalX", "NormalY", "NormalZ" >>
NormalVector == [ name |-> "NORMAL", attributes |-> NormalNames ]

NormalTypes ==
  { << "int8", "int8", "int8" >>, << "float", "float", "float" >>,
    << "double", "double", "double" >>, << "uint16", "int32", "double" >> }

NormalPoints ==
  { << 1, 1, 1 >>, << 2, 2, 2 >>, << 3, 3, 3 >>, << 1, 2, 3 >>, << 3, 1, 2 >> }

\* the bytes that store the value 1, 2 or 3 in a type
StoredBytes(type, v) ==
  IF type = "float"
    THEN << << 0, 0, 128, 63 >>, << 0, 0, 0, 64 >>, << 0, 0, 64, 64 >> >>[v]
  ELSE IF type = "double"
    THEN << << 0, 0, 0, 0, 0, 0, 240, 63 >>, << 0, 0, 0, 0, 0, 0, 0, 64 >>,
            << 0, 0, 0, 0, 0, 0, 8, 64 >> >>[v]
  ELSE Bytes(v, TypeSizes[type])

VectorInit ==
  /\ LoaderInit
  /\ calc \in { DecodeCall(points,
                   JobMessage([ k \in 1 .. 3 |-> ScalarAttribute(NormalNames[k], types[k]) ],
                              << NormalVector >>,
                              Concat([ i \in 1 .. 3 * Len(points) |->
                                         StoredBytes(types[((i - 1) % 3) + 1],
                                                     points[((i - 1) \div 3) + 1]
                                                           [((i - 1) % 3) + 1]) ]),
                              Len(points), Num(1), Num(32))) :
                 types \in NormalTypes,
                 points \in SeqsUpTo(NormalPoints, MaxPoints) }

VectorSpec == VectorInit /\ [][Decode]_vars

(***************************************************************************)
(* parseAttributes called on its own: the metadata's attribute list goes   *)
(* in, the PointAttributes come out.                                       *)
(***************************************************************************)
MaxAttributes == 2

AttributeNames == { "gps-time", "rgb", "intensity" }
AttributeTypeNames == { "double", "uint16", "unknown" }
RangeEnds == { 5, 6 }

\* an entry of metadata.attributes before its arrays are objects: min and
\* max hold numElements numbers each
JsonEntries ==
  [ name : AttributeNames, type : AttributeTypeNames, numElements : { 1, 3 },
    min : RangeEnds, max : RangeEnds ]

\* entry i of the parsed metadata: its min is array 2i - 1, its max array 2i
JsonAttribute(entry, i) ==
  [ name |-> entry.name, type |-> entry.type, numElements |-> entry.numElements,
    min |-> JsArray(2 * i - 1, [ k \in 1 .. entry.numElements |-> Num(entry.min) ]),
    max |-> JsArray(2 * i, [ k \in 1 .. entry.numElements |-> Num(entry.max) ]) ]

JsonAttributes(entries) ==
  [ i \in 1 .. Len(entries) |-> JsonAttribute(entries[i], i) ]

\* the three normal components among the attributes
NormalEntries ==
  { [ i \in 1 .. 3 |->
        [ name |-> NormalNames[i], type |-> type, numElements |-> 1,
          min |-> 5, max |-> max ] ] :
      type \in AttributeTypeNames, max \in RangeEnds }

AttributesInit ==
  /\ LoaderInit
  /\ \E entries \in SeqsUpTo(JsonEntries, MaxAttributes) \cup NormalEntries :
       calc = [ op |-> "parseAttributes", done |-> FALSE,
                jsonAttributes |-> JsonAttributes(entries),
                result |-> [ thrown |-> FALSE, attributes |-> << >>,
                             vectors |-> << >> ] ]

ParseAttributesCall ==
  /\ calc.op = "parseAttributes"
  /\ ~calc.done
  /\ calc' = [ calc EXCEPT !.done = TRUE,
                           !.result = parseAttributes(calc.jsonAttributes) ]
  /\ UNCHANGED loaderVars

AttributesSpec == AttributesInit /\ [][ParseAttributesCall]_vars

(***************************************************************************)
(* traverse called on its own: a tree, one of its nodes and the            *)
(* includeSelf argument go in, the nodes cb was called on come out.        *)
(***************************************************************************)
MaxDepth == 2

\* the child slots the trees use: the first and the last
TreeSlots == { 0, NumChildSlots - 1 }

\* A tree is the set of its nodes' names: the root, and with every node its
\* parent.
Trees ==
  { T \in SUBSET SeqsUpTo(TreeSlots, MaxDepth) :
      /\ RootName \in T
      /\ \A n \in T : n # RootName => SubSeq(n, 1, Len(n) - 1) \in T }

\* the nodes of a tree as parseHierarchy links them
TreeNodes(T) ==
  [ n \in T |->
      [ NewNode(IF n = RootName THEN NoNode ELSE SubSeq(n, 1, Len(n) - 1), Len(n))
          EXCEPT !.children = [ i \in ChildIndices |->
                                 IF Append(n, i) \in T THEN Append(n, i)
                                 ELSE NoNode ] ] ]

TraverseInit ==
  /\ LoaderInit
  /\ \E T \in Trees : \E node \in T : \E includeSelf \in IncludeSelfValues :
       calc = [ op |-> "traverse", done |-> FALSE, ns |-> TreeNodes(T),
                node |-> node, includeSelf |-> includeSelf, result |-> << >> ]

TraverseCall ==
  /\ calc.op = "traverse"
  /\ ~calc.done
  /\ calc' = [ calc EXCEPT !.done = TRUE,
                           !.result = traverse(calc.ns, calc.node, calc.includeSelf) ]
  /\ UNCHANGED loaderVars

TraverseSpec == TraverseInit /\ [][TraverseCall]_vars

(***************************************************************************)
(* Properties                                                              *)
(***************************************************************************)
Nodes == DOMAIN nodes
Workers == 1 .. created

\* the jobs posted for node n and not answered, as (worker, position) pairs
JobsFor(js, n) ==
  UNION { { << w, i >> : i \in { k \in 1 .. Len(js[w]) : js[w][k].name = n } } :
            w \in 1 .. Len(js) }

\* the suspended loads of node n
TasksFor(ts, n) == { t \in ts : t.node = n }

\* a step that is a call of NodeLoader.load
IsLoadCall == calls' # calls

\* the step leaves node n, its fetches, its suspended loads and its jobs alone
NodeUntouched(n) ==
  /\ nodes'[n] = nodes[n]
  /\ fetchCalls'[n] = fetchCalls[n]
  /\ TasksFor(tasks', n) = TasksFor(tasks, n)
  /\ JobsFor(jobs', n) = JobsFor(jobs, n)

\* C1: a load call on a node whose load is in flight (loading = true)
\* issues no fetch and dispatches nothing, and between the setting and the
\* clearing of loading at most one hierarchy fetch and at most one payload
\* fetch are issued for the node.
C1_SingleFlight ==
  /\ [](\A n \in Nodes : /\ fetchCalls[n].hierarchy <= 1
                         /\ fetchCalls[n].payload <= 1)
  /\ [][IsLoadCall => \A n \in Nodes : nodes[n].loading => NodeUntouched(n)]_vars

\* A second load call was made while the root's first load was suspended.
C1_Witness ==
  /\ calls = 2
  /\ Nodes = { RootName }
  /\ \E t \in tasks : t.id = 1 /\ t.node = RootName
  /\ fetchCalls[RootName].hierarchy = 1

\* C2: a load call on a loaded node (loaded = true, loading = false) is a
\* no-op: the node's flags and geometry stay, no fetch is issued and no
\* job is dispatched for it.
C2_LoadedIsNoOp ==
  [][IsLoadCall => \A n \in Nodes :
       (nodes[n].loaded /\ ~nodes[n].loading) => NodeUntouched(n)]_vars

\* C3: once a node's load has failed at any step, its failed flag is true.
C3_FailedFlagSet ==
  \A n \in Nodes : outcome[n] \in FailureOutcomes => nodes[n].failed

FetchFailures == { "hierarchyFetch", "payloadFetch" }

\* C4: when the hierarchy fetch or the payload fetch of a load fails, the
\* load ends with loading = false and loaded = false, it has taken no
\* worker from the pool, and load's guard lets a later call start anew.
C4_FetchFailureRetryable ==
  /\ [](\A n \in Nodes : outcome[n] \in FetchFailures =>
          /\ ~nodes[n].loading
          /\ ~nodes[n].loaded
          /\ ~LoadGuard(nodes[n])
          /\ TasksFor(tasks, n) = { })
  /\ [][\A n \in Nodes :
          (outcome[n] = "pending" /\ outcome'[n] \in FetchFailures) =>
             /\ UNCHANGED workerVars
             /\ JobsFor(jobs, n) = { }]_vars

\* The payload fetch of a node has failed.
C4_Witness ==
  \E n \in Nodes : outcome[n] = "payloadFetch" /\ nodes[n].nodeType # ProxyType

\* C5: when the worker fails on a job, the node's load still ends with
\* loading = false and the worker is returned to the free list.
C5_DecodeFailureRecovers ==
  \A n \in Nodes : outcome[n] = "decode" =>
     /\ ~nodes[n].loading
     /\ \A w \in Workers :
          (onmessage[w] = n /\ jobs[w] = << >> /\ w \notin terminated)
            => w \in Range(workers)

\* C6: the step in which a worker's result arrives attaches geometry and
\* density to the job's node, sets loaded, clears loading and failed, and
\* pushes the worker onto the free list; a worker with a job in flight is
\* never in the free list.
C6_CompletionStep ==
  /\ [](\A w \in Workers : jobs[w] # << >> => w \notin Range(workers))
  /\ [][\A w \in Workers :
          (geometries' # geometries /\ Len(jobs'[w]) < Len(jobs[w])) =>
             LET n == Head(jobs[w]).name
             IN /\ nodes'[n].geometry = geometries'
                /\ nodes'[n].geometry # NoGeometry
                /\ nodes'[n].density \in Densities
                /\ nodes'[n].loaded
                /\ ~nodes'[n].loading
                /\ ~nodes'[n].failed
                /\ workers' = Append(workers, w)]_vars

\* A result has arrived: the node is loaded and its worker is free again.
C6_Witness ==
  \E n \in Nodes :
     /\ outcome[n] = "loaded"
     /\ nodes[n].loaded
     /\ nodes[n].geometry # NoGeometry
     /\ nodes[n].density \in Densities
     /\ workers # << >>

\* C7: no worker has more than one job in flight, a worker with a job in
\* flight is neither in the free list nor the one getWorker would hand
\* out, and the free list holds no handle twice.
C7_OneJobPerWorker ==
  /\ \A w \in Workers : Len(jobs[w]) <= 1
  /\ \A w \in Workers : jobs[w] # << >> =>
        /\ w \notin Range(workers)
        /\ getWorker(workers, created) # w
  /\ \A i, j \in 1 .. Len(workers) : workers[i] = workers[j] => i = j

\* Two loads have their jobs in flight at once, each on a worker of its own.
C7_Witness ==
  /\ created = 2
  /\ \A w \in Workers : Len(jobs[w]) = 1
  /\ jobs[1][1].name # jobs[2][1].name

\* C8: the completion of a load that was in flight when dispose ran is
\* discarded: it attaches no geometry and does not set loaded.
C8_CompletionAfterDisposeDiscarded ==
  [][\A n \in disposedInFlight :
       /\ nodes'[n].geometry = nodes[n].geometry
       /\ nodes'[n].loaded => nodes[n].loaded]_vars

\* C9: OctreeGeometry.dispose releases the geometry of every non-root node
\* that has one (geometry undefined, loaded = false) and invokes each of
\* its one-time handlers once; a dispose of a disposed tree invokes none.
C9_DisposeReleasesNodes ==
  /\ [](\A h \in 1 .. Len(handlerRuns) : handlerRuns[h] <= 1)
  /\ [][(~octreeDisposed /\ octreeDisposed') =>
          \A n \in Nodes :
             (nodes[n].parent # NoNode /\ nodes[n].geometry # NoGeometry) =>
                /\ nodes'[n].geometry = NoGeometry
                /\ ~nodes'[n].loaded
                /\ \A h \in Range(nodes[n].oneTimeDisposeHandlers) :
                      handlerRuns'[h] = handlerRuns[h] + 1]_vars

\* C10: node.dispose changes a node only if it has a parent and geometry:
\* geometry is cleared only on a node with a parent, and then loaded is
\* cleared, loading and failed stay, every handler of the node runs once
\* and the handler list is emptied; handlers run, and handler lists
\* shrink, in no other step.
C10_NodeDisposeFrame ==
  [][/\ \A n \in Nodes :
          (nodes[n].geometry # NoGeometry /\ nodes'[n].geometry = NoGeometry) =>
             /\ nodes[n].parent # NoNode
             /\ ~nodes'[n].loaded
             /\ nodes'[n].loading = nodes[n].loading
             /\ nodes'[n].failed = nodes[n].failed
             /\ nodes'[n].oneTimeDisposeHandlers = << >>
             /\ \A h \in Range(nodes[n].oneTimeDisposeHandlers) :
                   handlerRuns'[h] = handlerRuns[h] + 1
     /\ \A n \in Nodes :
          Len(nodes'[n].oneTimeDisposeHandlers) < Len(nodes[n].oneTimeDisposeHandlers)
            => (nodes[n].geometry # NoGeometry /\ nodes'[n].geometry = NoGeometry)
     /\ \A h \in 1 .. Len(handlerRuns) :
          handlerRuns'[h] # handlerRuns[h] =>
             \E n \in Nodes :
                /\ h \in Range(nodes[n].oneTimeDisposeHandlers)
                /\ nodes[n].parent # NoNode
                /\ nodes[n].geometry # NoGeometry
                /\ nodes'[n].geometry = NoGeometry]_vars

\* A loaded child was disposed and its handler ran once, while the root
\* keeps its geometry.
C10_Witness ==
  /\ \E n \in Nodes :
        /\ nodes[n].parent # NoNode
        /\ outcome[n] = "loaded"
        /\ nodes[n].geometry = NoGeometry
        /\ ~nodes[n].loaded
        /\ nodes[n].oneTimeDisposeHandlers = << >>
  /\ Len(handlerRuns) = 1
  /\ handlerRuns[1] = 1

HierarchyPcs == { "hierarchyFetch", "hierarchyBody" }
PayloadPcs == { "payloadFetch", "payloadBody" }
HierarchyFailures == { "hierarchyFetch", "hierarchyLength", "hierarchyParse" }

\* C11: in a load of a proxy node the hierarchy fetch and the parse are
\* over before the payload fetch is issued, and that fetch asks for the
\* byteOffset/byteSize the parse wrote; a load whose hierarchy step fails
\* issues no payload fetch; a load of a non-proxy node issues no hierarchy
\* fetch.
C11_HierarchyBeforePayload ==
  [][ \A n \in Nodes :
        \* while the hierarchy step is pending, the node is a proxy and
        \* nothing of the payload stage has happened
        /\ \A t \in TasksFor(tasks, n) :
             t.pc \in HierarchyPcs =>
               /\ nodes[n].nodeType = ProxyType
               /\ fetchCalls[n] = [ hierarchy |-> 1, payload |-> 0 ]
               /\ JobsFor(jobs, n) = { }
        \* the payload fetch is issued for the range the node holds then,
        \* which for a proxy is the step that parsed its chunk
        /\ fetchCalls'[n].payload > fetchCalls[n].payload =>
             /\ \E t \in TasksFor(tasks', n) :
                  /\ t.pc = "payloadFetch"
                  /\ t.first = nodes'[n].byteOffset
                  /\ t.last = nodes'[n].byteOffset + nodes'[n].byteSize - 1
             /\ nodes[n].nodeType = ProxyType =>
                  \E t \in TasksFor(tasks, n) :
                    /\ t.pc = "hierarchyBody"
                    /\ \E b \in RangeBodies(t.first, t.last) :
                         nodes' = parseHierarchy(nodes, n, b).nodes
        \* the parse of a proxy's chunk that leaves a payload to fetch is
        \* followed by that fetch in the same step
        /\ ( /\ \E t \in TasksFor(tasks, n) : t.pc = "hierarchyBody"
             /\ TasksFor(tasks', n) \cap TasksFor(tasks, n) = { }
             /\ outcome'[n] = "pending"
             /\ nodes'[n].byteSize # 0 ) =>
             fetchCalls'[n].payload = 1
        \* a failed hierarchy step ends the load without a payload fetch
        /\ (outcome[n] = "pending" /\ outcome'[n] \in HierarchyFailures) =>
             /\ fetchCalls[n].payload = 0
             /\ TasksFor(tasks', n) = { }
             /\ JobsFor(jobs', n) = { }
        \* only a proxy's load fetches the hierarchy
        /\ fetchCalls'[n].hierarchy > fetchCalls[n].hierarchy =>
             nodes[n].nodeType = ProxyType
    ]_vars

\* a proxy's payload fetch is in flight for the range its parse wrote
C11_Witness ==
  \E t \in tasks :
    /\ t.pc = "payloadFetch"
    /\ fetchCalls[t.node] = [ hierarchy |-> 1, payload |-> 1 ]
    /\ nodes[t.node].byteSize = 22
    /\ t.first = nodes[t.node].byteOffset
    /\ t.last = t.first + nodes[t.node].byteSize - 1

\* the jobs of js for node n that carry a buffer of byteLength bytes
JobsOfLength(js, n, byteLength) ==
  { p \in JobsFor(js, n) : js[p[1]][p[2]].byteLength = byteLength }

\* load(n) passes from its entry or from the parse of n's chunk to the
\* read of byteOffset/byteSize in this step
EntersPayloadStage(n) ==
  /\ outcome'[n] = "pending"
  /\ \/ ~nodes[n].loading /\ nodes'[n].loading /\ nodes[n].nodeType # ProxyType
     \/ /\ \E t \in TasksFor(tasks, n) : t.pc = "hierarchyBody"
        /\ TasksFor(tasks', n) \cap TasksFor(tasks, n) = { }

\* C12: a load of a node whose resolved byteSize is 0 issues no payload
\* fetch, posts a decode job with an empty buffer all the same, and ends
\* with the node loaded (loaded = true, loading = false), never in the
\* catch block.
C12_ZeroSizeLoads ==
  [][ \A n \in Nodes :
        /\ (EntersPayloadStage(n) /\ nodes'[n].byteSize = 0) =>
             /\ fetchCalls'[n].payload = 0
             /\ TasksFor(tasks', n) = { }
             /\ JobsFor(jobs, n) = { }
             /\ Cardinality(JobsOfLength(jobs', n, 0)) = 1
             /\ JobsFor(jobs', n) = JobsOfLength(jobs', n, 0)
        /\ fetchCalls'[n].payload > fetchCalls[n].payload =>
             nodes'[n].byteSize # 0
        /\ (outcome[n] = "pending" /\ outcome'[n] = "payloadFetch") =>
             nodes[n].byteSize # 0
        /\ JobsOfLength(jobs, n, 0) # { } =>
             outcome'[n] \notin HierarchyFailures \cup { "payloadFetch" }
        /\ (JobsOfLength(jobs, n, 0) # { } /\ outcome'[n] = "loaded") =>
             /\ nodes'[n].loaded
             /\ ~nodes'[n].loading
             /\ ~nodes'[n].failed
             /\ nodes'[n].geometry # NoGeometry
    ]_vars

\* a node with no payload bytes is loaded, and no payload was fetched for it
C12_Witness ==
  \E n \in Nodes :
    /\ nodes[n].byteSize = 0
    /\ nodes[n].nodeType # ProxyType
    /\ nodes[n].loaded /\ ~nodes[n].loading
    /\ outcome[n] = "loaded"
    /\ \A t \in tasks : t.node # n

\* C13: parseHierarchy on a buffer whose byte length is no multiple of 22
\* fails before it changes any node (no field written, no child created),
\* and the load of the owning node ends as a failed load.
C13_RaggedChunkRejected ==
  /\ [](\A t \in tasks : \A b \in RangeBodies(t.first, t.last) :
          (t.pc = "hierarchyBody" /\ ByteLength(b) % bytesPerNode # 0) =>
            LET parsed == parseHierarchy(nodes, t.node, b)
            IN parsed.thrown /\ parsed.error = "RangeError"
                 /\ parsed.nodes = nodes)
  /\ [][ \A n \in Nodes :
          (outcome[n] = "pending" /\ outcome'[n] = "hierarchyLength") =>
            /\ DOMAIN nodes' = DOMAIN nodes
            /\ \A m \in Nodes \ { n } : nodes'[m] = nodes[m]
            /\ nodes'[n] = [ nodes[n] EXCEPT !.loaded = FALSE, !.loading = FALSE ]
            /\ TasksFor(tasks', n) = { }
            /\ JobsFor(jobs', n) = { }
            /\ fetchCalls[n].payload = 0
    ]_vars

\* a load ended on a chunk of ragged length; its node is still a childless
\* proxy with no payload range
C13_Witness ==
  \E n \in Nodes :
    /\ outcome[n] = "hierarchyLength"
    /\ ~nodes[n].loading /\ ~nodes[n].loaded
    /\ nodes[n].nodeType = ProxyType
    /\ nodes[n].byteSize = 0
    /\ \A i \in ChildIndices : nodes[n].children[i] = NoNode

\* the names a node of the dataset can have: the root and its children 0, 1
NodeNames == { RootName, << 0 >>, << 1 >> }

Loading(n) == n \in Nodes /\ nodes[n].loading

\* C14: when every fetch is settled and every worker answers or fails in
\* the end, every load that set loading ends with loading = false: no
\* node stays loading for ever.
C14_LoadingEnds ==
  \A n \in NodeNames : Loading(n) ~> ~Loading(n)

\* The records of the call that were reached: the loop stops at the first
\* position with no node.
Processed ==
  IF calc.result.error = "RangeError" THEN { }
  ELSE { i \in 1 .. Len(calc.buffer.records) : i <= Len(calc.result.list) }

RECURSIVE SumPow2(_)
SumPow2(S) ==
  IF S = { } THEN 0
  ELSE LET k == CHOOSE x \in S : TRUE IN Pow2(k) + SumPow2(S \ { k })

\* the indices whose bit is set in an 8-bit mask
BitsOf(childMask) == CHOOSE S \in SUBSET ChildIndices : SumPow2(S) = childMask

\* the members of a set of indices in ascending order
RECURSIVE Ascending(_)
Ascending(S) ==
  IF S = { } THEN << >>
  ELSE LET k == CHOOSE x \in S : \A y \in S : x <= y
       IN << k >> \o Ascending(S \ { k })

\* the work list after the records from i on, children in ascending order
RECURSIVE ExpectedList(_, _, _)
ExpectedList(list, records, i) ==
  IF i > Len(records) \/ i > Len(list) THEN list
  ELSE IF records[i].type = ProxyType THEN ExpectedList(list, records, i + 1)
  ELSE LET ks == Ascending(BitsOf(records[i].childMask))
       IN ExpectedList(list \o [ j \in 1 .. Len(ks) |-> Append(list[i], ks[j]) ],
                       records, i + 1)

\* C15: for every record of type 0 or 1 that parseHierarchy processes, the
\* node it is applied to gets a child at exactly the indices whose bit is
\* set in the mask; each child has that node as parent, its level plus
\* one, its name followed by the index, and the children join the work
\* list in ascending index order.
C15_ChildrenFollowMask ==
  (calc.op = "parseHierarchy" /\ calc.done) =>
    /\ \A i \in Processed :
         calc.buffer.records[i].type # ProxyType =>
           LET n == calc.result.list[i]
               node == calc.result.nodes[n]
               bits == BitsOf(calc.buffer.records[i].childMask)
           IN \A k \in ChildIndices :
                LET c == Append(n, k)
                IN IF k \in bits
                     THEN /\ node.children[k] = c
                          /\ c \in DOMAIN calc.result.nodes
                          /\ c \notin DOMAIN calc.nodes
                          /\ calc.result.nodes[c].parent = n
                          /\ calc.result.nodes[c].level = node.level + 1
                     ELSE /\ node.children[k] = NoNode
                          /\ c \notin DOMAIN calc.result.nodes
    /\ calc.result.error # "RangeError" =>
         calc.result.list = ExpectedList(<< calc.node >>, calc.buffer.records, 1)

\* a single record with mask 0b00000011 has created exactly children 0, 1
C15_Witness ==
  /\ calc.op = "parseHierarchy" /\ calc.done
  /\ calc.node = RootName
  /\ calc.buffer.rest = 0
  /\ Len(calc.buffer.records) = 1
  /\ calc.buffer.records[1].type = 1
  /\ calc.buffer.records[1].childMask = 3
  /\ DOMAIN calc.result.nodes = { RootName, << 0 >>, << 1 >> }
  /\ calc.result.list = << RootName, << 0 >>, << 1 >> >>

\* what a processed proxy record leaves in every case: the node is marked
\* proxy and has no child
ProxyRecordKeepsProxy(i) ==
  LET node == calc.result.nodes[calc.result.list[i]]
  IN /\ node.nodeType = ProxyType
     /\ \A k \in ChildIndices :
          /\ node.children[k] = NoNode
          /\ Append(calc.result.list[i], k) \notin DOMAIN calc.result.nodes

\* C16 as stated: for every proxy-type record, at any position including
\* position 0, parseHierarchy records the record's offset and size as
\* hierarchyByteOffset/hierarchyByteSize, leaves the node marked proxy and
\* creates no child.
C16_ProxyRecordAnyPosition ==
  (calc.op = "parseHierarchy" /\ calc.done) =>
    \A i \in Processed :
      calc.buffer.records[i].type = ProxyType =>
        LET node == calc.result.nodes[calc.result.list[i]]
            rec == calc.buffer.records[i]
        IN /\ node.hierarchyByteOffset = rec.byteOffset
           /\ node.hierarchyByteSize = rec.byteSize
           /\ ProxyRecordKeepsProxy(i)

\* C16 amended: a proxy-type record after position 0 has its offset and
\* size recorded as hierarchyByteOffset/hierarchyByteSize; at position 0,
\* where the node is the proxy being expanded, they are recorded as
\* byteOffset/byteSize and the hierarchy range is left as it was; in both
\* cases the node stays marked proxy and gets no child, whatever the mask.
C16_ProxyRecord ==
  (calc.op = "parseHierarchy" /\ calc.done) =>
    \A i \in Processed :
      calc.buffer.records[i].type = ProxyType =>
        LET n == calc.result.list[i]
            node == calc.result.nodes[n]
            rec == calc.buffer.records[i]
        IN /\ i > 1 =>
                /\ node.hierarchyByteOffset = rec.byteOffset
                /\ node.hierarchyByteSize = rec.byteSize
                /\ node.byteOffset = NewNode(NoNode, 0).byteOffset
                /\ node.byteSize = NewNode(NoNode, 0).byteSize
           /\ i = 1 =>
                /\ node.byteOffset = rec.byteOffset
                /\ node.byteSize = rec.byteSize
                /\ node.hierarchyByteOffset = calc.nodes[n].hierarchyByteOffset
                /\ node.hierarchyByteSize = calc.nodes[n].hierarchyByteSize
           /\ node.numPoints = rec.numPoints
           /\ ProxyRecordKeepsProxy(i)

\* a proxy record with a non-empty mask was processed after position 0
C16_Witness ==
  /\ calc.op = "parseHierarchy" /\ calc.done
  /\ \E i \in Processed :
       /\ i > 1
       /\ calc.buffer.records[i].type = ProxyType
       /\ calc.buffer.records[i].childMask # 0
       /\ calc.result.nodes[calc.result.list[i]].hierarchyByteSize = 22

\* the grid cell the point with coordinates x, y, z belongs to: per axis
\* clamp(floor(gridSize * coordinate / size), 0, gridSize - 1)
CellAxis(coordinate, size) ==
  LET cell == Floor(NDiv(NMul(Num(gridSize), coordinate), size))
  IN IF cell < 0 THEN 0 ELSE IF cell > gridSize - 1 THEN gridSize - 1 ELSE cell

\* the cell of point j (0-based) of the job of calc
CellOf(j) ==
  LET c(axis) == CellAxis(Coordinate(calc.data, 0, PositionAttribute.byteSize,
                                     j, axis),
                          calc.data.size[axis + 1])
  IN c(0) + c(1) * gridSize + c(2) * gridSize * gridSize

RECURSIVE SumCounts(_, _)
SumCounts(grid, cells) ==
  IF cells = { } THEN 0
  ELSE LET c == CHOOSE x \in cells : TRUE
       IN grid[c] + SumCounts(grid, cells \ { c })

\* C17: after handleMessage has decoded the positions, every point is
\* counted in exactly one cell of the 32x32x32 grid, the cell at the
\* integer index in 0..32767 that clamp(floor(32 * coordinate / size), 0,
\* 31) per axis gives; the counters add up to numPoints; the number of
\* occupied cells is at most min(numPoints, 32768); and the density posted
\* is numPoints divided by the number of occupied cells.
C17_DensityGrid ==
  (calc.op = "handleMessage" /\ calc.done /\ ~calc.result.thrown) =>
    LET points == 0 .. calc.data.numPoints - 1
        cells == { CellOf(j) : j \in points }
        grid == calc.result.grid
    IN /\ cells \subseteq 0 .. gridSize * gridSize * gridSize - 1
       /\ \A c \in cells \cup DOMAIN grid :
            GridCount(grid, c) = Cardinality({ j \in points : CellOf(j) = c })
       /\ SumCounts(grid, DOMAIN grid) = calc.data.numPoints
       /\ calc.result.numOccupiedCells = Cardinality(cells)
       /\ calc.result.numOccupiedCells <= calc.data.numPoints
       /\ calc.result.numOccupiedCells <= gridSize * gridSize * gridSize
       /\ calc.result.density =
            NDiv(Num(calc.data.numPoints), Num(calc.result.numOccupiedCells))

\* C18: every 16-bit colour channel v in 0..65535 is decoded to v when
\* v <= 255 and to floor(v / 256) when v > 255, always a value in 0..255,
\* and the alpha byte of every point is left 0.
C18_ColorRescale ==
  (calc.op = "handleMessage" /\ calc.done) =>
    /\ ~calc.result.thrown
    /\ LET colors == calc.result.attributeBuffers[ColorAttribute.name].buffer
       IN /\ Len(colors) = 4 * calc.data.numPoints
          /\ \A j \in 0 .. calc.data.numPoints - 1 :
               /\ \A k \in 0 .. 2 :
                    LET v == calc.points[j + 1][k + 1]
                    IN /\ colors[4 * j + k + 1] =
                            (IF v <= 255 THEN v ELSE v \div 256)
                       /\ colors[4 * j + k + 1] \in 0 .. 255
               /\ colors[4 * j + 4] = 0

\* the channels 200, 512 and 65535 of one point came out as 200, 2 and 255
C18_Witness ==
  /\ calc.op = "handleMessage" /\ calc.done
  /\ calc.points = << << 200, 512, MaxChannel >> >>
  /\ calc.result.attributeBuffers[ColorAttribute.name].buffer = << 200, 2, 255, 0 >>

\* C19: for each of the 10 scalar kinds (double, float, int8, int16,
\* int32, int64, uint8, uint16, uint32, uint64) handleMessage finds a
\* getter for a generic attribute of that kind, completes the decode and
\* posts a display buffer and a precise buffer of numPoints entries each.
C19_EveryKindDecodes ==
  (calc.op = "handleMessage" /\ calc.done) =>
    /\ ~calc.result.thrown
    /\ LET decoded == calc.result.attributeBuffers[calc.data.attributes[1].name]
       IN /\ Len(decoded.buffer) = calc.data.numPoints
          /\ Len(decoded.preciseBuffer) = calc.data.numPoints
          /\ \A j \in 1 .. calc.data.numPoints :
               decoded.preciseBuffer[j] = calc.points[j].value

\* C20: for a vector over the sources (A, B, C), component k of point j
\* is decoded value j of the k-th source with its normalization reversed
\* (value / scale + offset), at position j * 3 + k of the vector's buffer,
\* which has exactly 3 * numPoints entries.
C20_VectorInterleaved ==
  (calc.op = "handleMessage" /\ calc.done) =>
    /\ ~calc.result.thrown
    /\ LET buffers == calc.result.attributeBuffers
           f32 == buffers[NormalVector.name].buffer
       IN /\ Len(f32) = 3 * calc.data.numPoints
          /\ \A j \in 0 .. calc.data.numPoints - 1 : \A k \in 0 .. 2 :
               LET source == buffers[NormalNames[k + 1]]
               IN /\ f32[j * 3 + k + 1] =
                       ToFloat32(NAdd(NDiv(source.buffer[j + 1], source.scale),
                                      source.offset))
                  /\ f32[j * 3 + k + 1] = source.preciseBuffer[j + 1]
                  /\ f32[j * 3 + k + 1] = Num(calc.points[j + 1][k + 1])

\* three sources that each decode to [1, 2, 3] gave [1,1,1, 2,2,2, 3,3,3]
C20_Witness ==
  /\ calc.op = "handleMessage" /\ calc.done
  /\ calc.points = << << 1, 1, 1 >>, << 2, 2, 2 >>, << 3, 3, 3 >> >>
  /\ \A k \in 1 .. 3 :
       calc.result.attributeBuffers[NormalNames[k]].preciseBuffer
         = << Num(1), Num(2), Num(3) >>
  /\ calc.result.attributeBuffers[NormalVector.name].buffer =
       << Num(1), Num(1), Num(1), Num(2), Num(2), Num(2), Num(3), Num(3), Num(3) >>

\* a gps-time entry of one element whose min equals its max
BadGpsTime(jsonAttribute) ==
  /\ jsonAttribute.name = "gps-time"
  /\ jsonAttribute.numElements = 1
  /\ jsonAttribute.min.elems[1] = jsonAttribute.max.elems[1]

\* C21: parseAttributes stores, for a gps-time attribute of one element
\* whose declared min equals its max, the range [min, max + 1]; for every
\* other attribute, and for gps-time with min different from max, the stored
\* range is the declared [min, max].
C21_GpsTimeRange ==
  (calc.op = "parseAttributes" /\ calc.done /\ ~calc.result.thrown) =>
    /\ Len(calc.result.attributes) = Len(calc.jsonAttributes)
    /\ \A k \in 1 .. Len(calc.jsonAttributes) :
         calc.result.attributes[k].range =
           IF BadGpsTime(calc.jsonAttributes[k])
             THEN << JsNumber(calc.jsonAttributes[k].min.elems[1]),
                     JsNumber(NAdd(calc.jsonAttributes[k].max.elems[1], Num(1))) >>
             ELSE DeclaredRange(calc.jsonAttributes[k])

C21_Witness ==
  /\ calc.op = "parseAttributes" /\ calc.done /\ ~calc.result.thrown
  /\ \E k \in 1 .. Len(calc.jsonAttributes) :
       /\ BadGpsTime(calc.jsonAttributes[k])
       /\ calc.jsonAttributes[k].min.elems[1] = Num(5)
       /\ calc.result.attributes[k].range = << JsNumber(Num(5)), JsNumber(Num(6)) >>
  /\ \E k \in 1 .. Len(calc.jsonAttributes) :
       /\ calc.jsonAttributes[k].name = "gps-time"
       /\ ~BadGpsTime(calc.jsonAttributes[k])

\* every node with loaded = true has geometry attached
LoadedHasGeometry ==
  \A n \in DOMAIN nodes : nodes[n].loaded => nodes[n].geometry # NoGeometry

\* C22: in every reachable state no node has loading = true and
\* loaded = true at the same time, and every node with loaded = true has
\* geometry attached.
C22_LoadStateConsistent ==
  /\ \A n \in DOMAIN nodes : ~(nodes[n].loading /\ nodes[n].loaded)
  /\ LoadedHasGeometry

\* C23: a load that fails inside the hierarchy step leaves the tree as it
\* was before the load: the expanded node's nodeType, byteOffset, byteSize,
\* numPoints and children are unchanged and no node is created, so the node
\* is still a proxy and a retry fetches the hierarchy again.
C23_HierarchyFailureKeepsTree ==
  [][ \A n \in Nodes :
        (outcome[n] = "pending" /\ outcome'[n] \in HierarchyFailures) =>
          /\ DOMAIN nodes' = DOMAIN nodes
          /\ nodes'[n].nodeType = nodes[n].nodeType
          /\ nodes'[n].byteOffset = nodes[n].byteOffset
          /\ nodes'[n].byteSize = nodes[n].byteSize
          /\ nodes'[n].numPoints = nodes[n].numPoints
          /\ nodes'[n].children = nodes[n].children
    ]_vars

\* after NodeLoader.dispose the free list is empty
DisposedPoolEmpty == disposed => workers = << >>

\* C24: after NodeLoader.dispose the free list stays empty and every worker
\* the loader ever created is terminated, also when results of jobs that
\* were in flight at dispose time arrive afterwards.
C24_DisposedLoaderHasNoWorkers ==
  /\ DisposedPoolEmpty
  /\ disposed => \A w \in 1 .. created : w \in terminated

\* the number of calls of cb on node n
CallsOn(visited, n) == Cardinality({ k \in 1 .. Len(visited) : visited[k] = n })

\* node d lies below node n in the tree
ProperDescendant(d, n) == Len(d) > Len(n) /\ SubSeq(d, 1, Len(n)) = n

\* C25: traverse(cb, includeSelf) returns, having called cb exactly once on
\* every proper descendant of the node, for includeSelf true, false or
\* omitted; on the node itself it calls cb once when includeSelf is true
\* and not at all otherwise.
C25_TraverseVisitsDescendants ==
  (calc.op = "traverse" /\ calc.done) =>
    \A n \in DOMAIN calc.ns :
      CallsOn(calc.result, n) =
        IF ProperDescendant(n, calc.node) THEN 1
        ELSE IF n = calc.node /\ calc.includeSelf = "true" THEN 1
        ELSE 0

\* the same for includeSelf = true only
TraverseIncludingSelf ==
  (calc.op = "traverse" /\ calc.done /\ calc.includeSelf = "true") =>
    \A n \in DOMAIN calc.ns :
      CallsOn(calc.result, n) =
        IF ProperDescendant(n, calc.node) \/ n = calc.node THEN 1 ELSE 0

====
